---- MODULE Spec2Model ----
(***************************************************************************)
(* A model of StructReader (src/StructReader/Struct_Reader.py): the        *)
(* descriptor builders, the schema compiler, the stream interpreter with   *)
(* its shared binding context, and the entry point ParseStruct.            *)
(*                                                                         *)
(* Python values are records tagged by their type in the field py.  A      *)
(* raised exception is the value PyRaise(e); every constructor propagates  *)
(* it, as Python's eager evaluation does.  Text and raw-bytes descriptors  *)
(* (STR, BYTES, BYTES2) are not modelled.                                  *)
(***************************************************************************)
EXTENDS Integers, Sequences, FiniteSets, TLC

\* ------------------------------------------------------------- type tags
INT     == 1
FLOAT   == 2
UVARINT == 3
LIST    == 7
STRUCT  == 8
CONST   == 9
VAR     == 10
MATCH   == 11
FUNC    == 12
SEEK    == 13
POS     == 14
PEEK    == 15
GROUP   == 16
BOOL    == 17

\* --------------------------------------------------------- Python values
PyInt(n)   == [py |-> "int", v |-> n]
PyStr(s)   == [py |-> "str", v |-> s]
PyBool(b)  == [py |-> "bool", v |-> b]
PyNone     == [py |-> "None"]
PyFloat    == [py |-> "float"]
PyFunc(f)  == [py |-> "function", v |-> f]
PyRaise(e) == [py |-> "raise", v |-> e]

IsRaise(x) == x.py = "raise"

\* The first exception raised while evaluating items left to right.
FirstRaise(items) ==
    LET bad == {i \in 1..Len(items) : IsRaise(items[i])}
    IN  items[CHOOSE i \in bad : \A j \in bad : i <= j]

AnyRaise(items) == \E i \in 1..Len(items) : IsRaise(items[i])

PyTuple(items) == IF AnyRaise(items) THEN FirstRaise(items)
                  ELSE [py |-> "tuple", v |-> items]

PyList(items) == IF AnyRaise(items) THEN FirstRaise(items)
                 ELSE [py |-> "list", v |-> items]

\* A class statement: its body is evaluated field by field; fields is a
\* sequence of <<name, value>>.
PyClass(fields) ==
    LET vals == [i \in 1..Len(fields) |-> fields[i][2]]
    IN  IF AnyRaise(vals) THEN FirstRaise(vals)
        ELSE [py |-> "type", v |-> fields]

IsSeq(x) == x.py \in {"tuple", "list"}

\* ------------------------------------------------------ descriptor model
\* a, b, c = value
Unpack(value, n) ==
    IF ~IsSeq(value) THEN PyRaise("TypeError")
    ELSE IF Len(value.v) # n THEN PyRaise("ValueError")
    ELSE value

RECURSIVE BaseType(_, _)
BaseType(typeIndex, value) ==
    IF IsRaise(value) THEN value
    ELSE IF typeIndex \in {INT, FLOAT} THEN
        LET u == Unpack(value, 3)
        IN  IF IsRaise(u) THEN u
            ELSE [py |-> "BaseType", Type |-> typeIndex,
                  Bits |-> u.v[1], Order |-> u.v[2], Sign |-> u.v[3]]
    ELSE IF typeIndex = VAR THEN
        [py |-> "BaseType", Type |-> VAR, Name |-> value]
    ELSE IF typeIndex = LIST THEN
        LET u == Unpack(value, 2)
        IN  IF IsRaise(u) THEN u
            ELSE [py |-> "BaseType", Type |-> LIST,
                  Count |-> u.v[1], Value |-> u.v[2]]
    ELSE IF typeIndex = GROUP THEN
        [py |-> "BaseType", Type |-> GROUP,
         Params |-> IF IsSeq(value) THEN value.v ELSE <<value>>]
    ELSE IF typeIndex = FUNC THEN
        IF ~IsSeq(value) THEN PyRaise("TypeError")
        ELSE IF Len(value.v) < 2 THEN PyRaise("IndexError")
        ELSE IF IsSeq(value.v[2]) /\ Len(value.v) # 2 THEN PyRaise("ValueError")
        ELSE
            LET params == IF IsSeq(value.v[2]) THEN value.v[2]
                          ELSE [py |-> value.py, v |-> Tail(value.v)]
                grp == IF params.py = "BaseType" /\ params.Type = GROUP
                       THEN params
                       ELSE BaseType(GROUP, params)
            IN  [py |-> "BaseType", Type |-> FUNC,
                 BFunc |-> value.v[1], Params |-> grp]
    ELSE IF typeIndex = MATCH THEN
        LET u == Unpack(value, 3)
        IN  IF IsRaise(u) THEN u
            ELSE LET f == BaseType(FUNC, PyTuple(<<u.v[1], u.v[2]>>))
                 IN  IF IsRaise(f) THEN f
                     ELSE [py |-> "BaseType", Type |-> MATCH,
                           BFunc |-> f, Results |-> u.v[3]]
    ELSE IF typeIndex = SEEK THEN
        LET t == IF value.py = "tuple" THEN value ELSE PyTuple(<<value, PyInt(0)>>)
        IN  IF Len(t.v) < 2 THEN PyRaise("IndexError")
            ELSE [py |-> "BaseType", Type |-> SEEK, Offset |-> t.v[1],
                  Mode |-> IF t.v[2].py = "int" /\ t.v[2].v \in {0, 1, 2}
                           THEN t.v[2].v ELSE 0]
    ELSE IF typeIndex = PEEK THEN
        [py |-> "BaseType", Type |-> PEEK, Value |-> value]
    ELSE [py |-> "BaseType", Type |-> typeIndex]

\* The builder names of the module and what _TypeFactory.__init__ derives
\* from each by startswith / endswith.
IntNames   == {"Int", "UInt", "IntBE", "IntLE", "UIntBE", "UIntLE"}
FloatNames == {"Float", "FloatBE", "FloatLE"}
EndsWithBE == {"IntBE", "UIntBE", "FloatBE"}
EndsWithLE == {"IntLE", "UIntLE", "FloatLE"}
StartsWithInt == {"Int", "IntBE", "IntLE"}

TypeFactory(tName) ==
    IF tName \in IntNames THEN
        [Type |-> INT,
         Params |-> << IF tName \in EndsWithBE THEN PyStr("big")
                       ELSE IF tName \in EndsWithLE THEN PyStr("Little")
                       ELSE PyNone,
                       PyBool(tName \in StartsWithInt) >>]
    ELSE IF tName \in FloatNames THEN
        [Type |-> FLOAT,
         Params |-> << IF tName \in EndsWithBE THEN PyStr(">")
                       ELSE IF tName \in EndsWithLE THEN PyStr("<")
                       ELSE PyNone >>]
    ELSE [Type |-> CASE tName = "List"  -> LIST
                     [] tName = "Match" -> MATCH
                     [] tName = "Func"  -> FUNC
                     [] tName = "Group" -> GROUP
                     [] tName = "Seek"  -> SEEK
                     [] tName = "Peek"  -> PEEK
                     [] tName = "Var"   -> VAR,
          Params |-> << >>]

\* _TypeFactory(tName)[args]
GetItem(tName, args) ==
    LET f == TypeFactory(tName)
    IN  IF IsRaise(args) THEN args
        ELSE IF f.Params # << >> THEN
            IF args.py # "int" THEN PyRaise("TypeError")
            ELSE BaseType(f.Type, PyTuple(<<PyInt(args.v \div 8)>> \o f.Params))
        ELSE BaseType(f.Type, args)

\* _TypeFactory(tName).name
GetAttr(tName, name) ==
    LET f == TypeFactory(tName)
    IN  IF f.Type = VAR THEN BaseType(VAR, PyStr(name))
        ELSE PyRaise("AttributeError")

Uvarint == BaseType(UVARINT, PyNone)
Pos     == BaseType(POS, PyNone)
Bool    == BaseType(BOOL, PyNone)

\* ------------------------------------------------------- schema compiler
\* A compile that raised: the exception in place of the canonical node.
CompileError(e) == <<0, e>>
IsCompileError(n) == n[1] = 0

FirstError(nodes) ==
    LET bad == {i \in 1..Len(nodes) : IsCompileError(nodes[i])}
    IN  nodes[CHOOSE i \in bad : \A j \in bad : i <= j]

AnyError(nodes) == \E i \in 1..Len(nodes) : IsCompileError(nodes[i])

\* v.Order or order
OrElse(x, default) == IF x.py = "None" THEN default ELSE x.v

RECURSIVE CompileType(_, _, _)
RECURSIVE CompileStruct(_, _, _)

CompileType(v, order, order2) ==
    IF v.py = "BaseType" THEN
        LET t == v.Type
            C(x) == CompileType(x, order, order2)
        IN  CASE t = VAR     -> <<t, v.Name.v>>
              [] t = INT     -> <<t, v.Bits.v, v.Sign.v, OrElse(v.Order, order)>>
              [] t = FLOAT   -> <<t, v.Bits.v, v.Sign.v, OrElse(v.Order, order2)>>
              [] t \in {UVARINT, POS, BOOL} -> <<t>>
              [] t = SEEK    ->
                    LET o == C(v.Offset)
                    IN  IF IsCompileError(o) THEN o ELSE <<t, o, v.Mode>>
              [] t = PEEK    ->
                    LET x == C(v.Value)
                    IN  IF IsCompileError(x) THEN x ELSE <<t, x>>
              [] t = GROUP   ->
                    LET ps == [i \in 1..Len(v.Params) |-> C(v.Params[i])]
                    IN  IF AnyError(ps) THEN FirstError(ps) ELSE <<t, ps>>
              [] t = FUNC    ->
                    LET g == C(v.Params)
                    IN  IF IsCompileError(g) THEN g ELSE <<t, v.BFunc.v, g>>
              [] t = MATCH   ->
                    LET f  == C(v.BFunc)
                        rs == [i \in 1..Len(v.Results.v) |-> C(v.Results.v[i])]
                    IN  IF IsCompileError(f) THEN f
                        ELSE IF AnyError(rs) THEN FirstError(rs)
                        ELSE <<t, f, rs>>
              [] t = LIST    ->
                    LET c == C(v.Count)
                        x == C(v.Value)
                    IN  IF IsCompileError(c) THEN c
                        ELSE IF IsCompileError(x) THEN x
                        ELSE <<t, c, x>>
    ELSE IF v.py \in {"int", "bool", "str"} THEN <<CONST, v>>
    ELSE IF v.py = "type" THEN CompileStruct(v, order, order2)
    ELSE CompileError("TypeError")

\* The compiled dict is the sequence of its items <<n, node>>, in
\* declaration order.  It is returned inside the (STRUCT, dict) tuple that
\* CompileType wraps it in, which tells it from a compile that raised;
\* ParseStruct uses the dict, the tuple's second item.
CompileStruct(cls, order, order2) ==
    LET o2 == IF order2 = "None"
              THEN (IF order = "big" THEN ">" ELSE "<")
              ELSE order2
        ns == [i \in 1..Len(cls.v) |-> CompileType(cls.v[i][2], order, o2)]
    IN  IF AnyError(ns) THEN FirstError(ns)
        ELSE <<STRUCT, [i \in 1..Len(cls.v) |-> <<cls.v[i][1], ns[i]>>]>>

\* ------------------------------------------------------------ byte source
\* io.BytesIO, which ParseStruct wraps raw bytes in: read(n), tell(),
\* seek(offset, whence).  m.data are the bytes and m.pos the position.
Min(a, b) == IF a < b THEN a ELSE b
Max(a, b) == IF a > b THEN a ELSE b

Avail(m, n) == IF m.pos >= Len(m.data) THEN 0 ELSE Min(n, Len(m.data) - m.pos)
ReadBytes(m, n) == SubSeq(m.data, m.pos + 1, m.pos + Avail(m, n))
AfterRead(m, n) == [m EXCEPT !.pos = m.pos + Avail(m, n)]

\* The position after r.seek(offset, whence), or -1 where seek raises
\* ValueError (a negative absolute offset).
SeekPos(m, offset, whence) ==
    CASE whence = 0 -> IF offset < 0 THEN -1 ELSE offset
      [] whence = 1 -> Max(0, m.pos + offset)
      [] whence = 2 -> Max(0, Len(m.data) + offset)

\* ---------------------------------------------------------- interpreter
\* The machine m threads what the routines read and write: the byte
\* source (data, pos), self._Ctx (ctx), the routine's return value (val)
\* or the exception chain it raised (err, outermost first, each with the
\* exception's args), and a record of what the routines did (binds,
\* lookups, calls, peeks, matches, lists, ints).
Ok(m) == m.err = << >>
Return(m, value) == [m EXCEPT !.val = value]
Raise(m, e) == [m EXCEPT !.err = <<[exc |-> e, arg |-> << >>]>>]

Bind(ctx, n, value) ==
    [k \in DOMAIN ctx \cup {n} |-> IF k = n THEN value ELSE ctx[k]]

RECURSIVE Pow2(_)
Pow2(n) == IF n = 0 THEN 1 ELSE 2 * Pow2(n - 1)

RECURSIVE BigEndian(_)
BigEndian(b) ==
    IF b = << >> THEN 0 ELSE 256 * BigEndian(SubSeq(b, 1, Len(b) - 1)) + b[Len(b)]

Reverse(b) == [i \in 1..Len(b) |-> b[Len(b) + 1 - i]]

\* int.from_bytes(b, order, signed=signed), for order in {'big', 'little'}
FromBytes(b, order, signed) ==
    LET u == IF order = "big" THEN BigEndian(b) ELSE BigEndian(Reverse(b))
    IN  IF signed /\ b # << >> /\ u >= Pow2(8 * Len(b) - 1)
        THEN u - Pow2(8 * Len(b)) ELSE u

IsInt(value) == value.py \in {"int", "bool"}
AsInt(value) == IF value.py = "bool" THEN (IF value.v THEN 1 ELSE 0) ELSE value.v

\* The transform callables the schemas use (user code, called by
\* ParseFunc): count = lambda *a: len(a), ident = lambda x: x,
\* neg = lambda x: -x, add = lambda a, b: a + b.
Apply(func, args) ==
    CASE func = "count" -> PyInt(Len(args))
      [] func = "ident" -> IF Len(args) = 1 THEN args[1] ELSE PyRaise("TypeError")
      [] func = "neg"   -> IF Len(args) = 1 /\ IsInt(args[1])
                           THEN PyInt(0 - AsInt(args[1]))
                           ELSE PyRaise("TypeError")
      [] func = "add"   -> IF Len(args) # 2 THEN PyRaise("TypeError")
                           ELSE IF IsInt(args[1]) /\ IsInt(args[2])
                           THEN PyInt(AsInt(args[1]) + AsInt(args[2]))
                           ELSE IF args[1].py = "list" /\ args[2].py = "list"
                           THEN PyList(args[1].v \o args[2].v)
                           ELSE PyRaise("TypeError")

RECURSIVE Dispatch(_, _, _)
RECURSIVE Parse(_, _, _)

ParseInt(self, m, params) ==
    LET size == params[2]
        signed == params[3]
        order == params[4]
        b == ReadBytes(m, size)
        m1 == [AfterRead(m, size) EXCEPT !.ints =
                  Append(@, [size |-> size, got |-> b, order |-> order,
                             signed |-> signed])]
    IN  IF order \notin {"little", "big"} THEN Raise(m1, "ValueError")
        ELSE Return(m1, PyInt(FromBytes(b, order, signed)))

\* struct.unpack_from(f'{order}{sign}', r.read(size)): the buffer must hold
\* the 4 bytes of 'f' or the 8 of 'd'.
ParseFloat(self, m, params) ==
    LET size == params[2]
        sign == params[3]
        order == params[4]
        b == ReadBytes(m, size)
        m1 == AfterRead(m, size)
        need == IF sign = "f" THEN 4 ELSE 8
    IN  IF sign \notin {"f", "d"} \/ Len(b) < need THEN Raise(m1, "struct.error")
        ELSE Return(m1, [py |-> "float", order |-> order, v |-> SubSeq(b, 1, need)])

ParseNumber(self, m, params) == Return(m, params[2])

RECURSIVE ListLoop(_, _, _, _, _)
ListLoop(self, m, value, loop, acc) ==
    IF loop <= 0 THEN Return(m, PyList(acc))
    ELSE LET m1 == Dispatch(self, m, value)
         IN  IF ~Ok(m1) THEN m1
             ELSE ListLoop(self, m1, value, loop - 1, Append(acc, m1.val))

ParseList(self, m, params) ==
    LET count == params[2]
        value == params[3]
        m1 == Dispatch(self, m, count)
    IN  IF ~Ok(m1) THEN m1
        ELSE IF ~IsInt(m1.val) THEN Raise(m1, "TypeError")
        ELSE LET m2 == ListLoop(self, m1, value, AsInt(m1.val), << >>)
             IN  IF ~Ok(m2) THEN m2
                 ELSE [m2 EXCEPT !.lists =
                          Append(@, [N |-> AsInt(m1.val), n |-> Len(m2.val.v)])]

\* A sub-record decoded in a scope of its own: the names it binds are
\* dropped when it returns.
StructObj_ParseStruct_Scoped(self, m, params) ==
    LET m1 == Parse(self, params[2], [m EXCEPT !.depth = @ + 1])
    IN  [m1 EXCEPT !.depth = m.depth, !.ctx = m.ctx]

StructObj_ParseStruct(self, m, params) ==
    LET m1 == Parse(self, params[2], [m EXCEPT !.depth = @ + 1])
    IN  [m1 EXCEPT !.depth = m.depth]

RECURSIVE UvarintLoop(_, _, _)
UvarintLoop(m, value, shift) ==
    LET b == ReadBytes(m, 1)
        m1 == AfterRead(m, 1)
    IN  IF b = << >> THEN Raise(m1, "EOFError")
        ELSE LET val == value + (b[1] % 128) * Pow2(shift)
             IN  IF b[1] < 128 THEN Return(m1, PyInt(val))
                 ELSE UvarintLoop(m1, val, shift + 7)

ParseUvarint(self, m, params) == UvarintLoop(m, 0, 0)

ParseBool(self, m, params) ==
    LET b == ReadBytes(m, 1)
        m1 == AfterRead(m, 1)
    IN  IF b = << >> THEN Raise(m1, "EOFError")
        ELSE Return(m1, PyBool(b[1] # 0))

ParseVar(self, m, params) ==
    IF params[2] \notin DOMAIN m.ctx THEN Raise(m, "KeyError")
    ELSE [Return(m, m.ctx[params[2]]) EXCEPT !.lookups =
             Append(@, [name |-> params[2], val |-> m.ctx[params[2]],
                        at |-> Len(m.binds), depth |-> m.depth])]

ParsePos(self, m, params) == Return(m, PyInt(m.pos))

RECURSIVE GroupLoop(_, _, _, _)
GroupLoop(self, m, cParams, acc) ==
    IF cParams = << >> THEN Return(m, PyList(acc))
    ELSE LET m1 == Dispatch(self, m, Head(cParams))
         IN  IF ~Ok(m1) THEN m1
             ELSE GroupLoop(self, m1, Tail(cParams), Append(acc, m1.val))

ParseGroup(self, m, params) == GroupLoop(self, m, params[2], << >>)

ParseFunc(self, m, params) ==
    LET func == params[2]
        cParams == params[3]
        m1 == Dispatch(self, m, cParams)
    IN  IF ~Ok(m1) THEN m1
        ELSE IF m1.val.py # "list" THEN Raise(m1, "TypeError")
        ELSE LET res == Apply(func, m1.val.v)
                 m2 == [m1 EXCEPT !.calls =
                           Append(@, [func |-> func, args |-> m1.val.v])]
             IN  IF IsRaise(res) THEN Raise(m2, res.v) ELSE Return(m2, res)

\* cresults[i] for a Python list of k items: the 0-based position selected,
\* or -1 where the subscript raises IndexError.
Subscript(k, i) ==
    IF 0 <= i /\ i < k THEN i
    ELSE IF 0 - k <= i /\ i < 0 THEN k + i
    ELSE -1

ParseMatch(self, m, params) ==
    LET cond == params[2]
        cresults == params[3]
        m1 == Dispatch(self, m, cond)
    IN  IF ~Ok(m1) THEN m1
        ELSE IF ~IsInt(m1.val) THEN Raise(m1, "TypeError")
        ELSE LET i == AsInt(m1.val)
                 at == Subscript(Len(cresults), i)
                 m2 == [m1 EXCEPT !.matches =
                           Append(@, [i |-> i, k |-> Len(cresults), at |-> at])]
             IN  IF at < 0 THEN Raise(m2, "IndexError")
                 ELSE Dispatch(self, m2, cresults[at + 1])

ParseSeek(self, m, params) ==
    LET pos == params[2]
        mode == params[3]
        m1 == Dispatch(self, m, pos)
    IN  IF ~Ok(m1) THEN m1
        ELSE IF ~IsInt(m1.val) THEN Raise(m1, "TypeError")
        ELSE LET to == SeekPos(m1, AsInt(m1.val), mode)
             IN  IF to < 0 THEN Raise(m1, "ValueError")
                 ELSE Return([m1 EXCEPT !.pos = to], PyInt(-1))

\* A lookahead that forgets r.seek(pos).
ParsePeek_NoRewind(self, m, params) ==
    LET v == params[2]
        pos == m.pos
        m1 == Dispatch(self, m, v)
    IN  IF ~Ok(m1) THEN m1
        ELSE [m1 EXCEPT !.peeks =
                 Append(@, [v |-> v, pos0 |-> pos, ctx0 |-> m.ctx,
                            end |-> m1.pos, pos1 |-> m1.pos,
                            vv |-> m1.val])]

ParsePeek(self, m, params) ==
    LET v == params[2]
        pos == m.pos
        m1 == Dispatch(self, m, v)
    IN  IF ~Ok(m1) THEN m1
        ELSE LET m2 == [m1 EXCEPT !.pos = SeekPos(m1, pos, 0)]
             IN  [m2 EXCEPT !.peeks =
                     Append(@, [v |-> v, pos0 |-> pos, ctx0 |-> m.ctx,
                                end |-> m1.pos, pos1 |-> m2.pos,
                                vv |-> m1.val])]

\* self.Get(v[0])(r, v): the routine FuncDict holds for the node's tag.
Dispatch(self, m, v) ==
    CASE v[1] = INT     -> ParseInt(self, m, v)
      [] v[1] = FLOAT   -> ParseFloat(self, m, v)
      [] v[1] = UVARINT -> ParseUvarint(self, m, v)
      [] v[1] = LIST    -> ParseList(self, m, v)
      [] v[1] = STRUCT  -> StructObj_ParseStruct(self, m, v)
      [] v[1] = CONST   -> ParseNumber(self, m, v)
      [] v[1] = VAR     -> ParseVar(self, m, v)
      [] v[1] = MATCH   -> ParseMatch(self, m, v)
      [] v[1] = GROUP   -> ParseGroup(self, m, v)
      [] v[1] = FUNC    -> ParseFunc(self, m, v)
      [] v[1] = SEEK    -> ParseSeek(self, m, v)
      [] v[1] = PEEK    -> ParsePeek(self, m, v)
      [] v[1] = POS     -> ParsePos(self, m, v)
      [] v[1] = BOOL    -> ParseBool(self, m, v)

\* One iteration of Parse's loop, for the field n with node v: the routine
\* runs inside try; any exception is replaced by RuntimeError(v), the
\* caught one staying attached as its context; a value is bound in the
\* context under n.
ParseField(self, m, n, v) ==
    LET m1 == Dispatch(self, m, v)
    IN  IF ~Ok(m1)
        THEN [m1 EXCEPT !.err = <<[exc |-> "RuntimeError", arg |-> v]>> \o @]
        ELSE [m1 EXCEPT !.ctx = Bind(@, n, m1.val),
                        !.binds = Append(@, [name |-> n, val |-> m1.val,
                                             depth |-> m.depth])]

\* The container Parse fills: a Struct() for StructObj, a dict for
\* StructDict; items are <<n, vv>> in insertion order.
NewObj(self) == [py |-> IF self = "StructDictCls" THEN "dict" ELSE "Struct",
                 v |-> << >>]
SetAttr(obj, n, vv) == [obj EXCEPT !.v = Append(@, <<n, vv>>)]

RECURSIVE ParseLoop(_, _, _, _)
ParseLoop(self, struct, m, obj) ==
    IF struct = << >> THEN Return(m, obj)
    ELSE LET m1 == ParseField(self, m, Head(struct)[1], Head(struct)[2])
         IN  IF ~Ok(m1) THEN m1
             ELSE ParseLoop(self, Tail(struct), m1,
                            SetAttr(obj, Head(struct)[1], m1.val))

\* StructObj.Parse and StructDict.Parse
Parse(self, struct, m) == ParseLoop(self, struct, m, NewObj(self))

\* ------------------------------------------------------------- programs
\* The schemas the model declares and the bytes it decodes.  A program
\* imports the module, evaluates one class statement and then calls
\* ParseStruct on that class any number of times.
U8  == GetItem("UInt", PyInt(8))
U16 == GetItem("UInt", PyInt(16))
Var(name) == GetAttr("Var", name)
Class1(n, value) == PyClass(<< <<n, value>> >>)

ClassNames ==
    {"Flat", "Example", "Deep", "Nested", "Top", "MatchId", "MatchNeg",
     "Peek", "PeekSeek", "Seek", "FuncListed", "FuncList", "FuncTuple",
     "FuncGroup", "FuncSingle", "FuncAdd", "FloatRaw", "List0", "ListNeg",
     "ListRead", "BadLiteral", "BadNested"}

FuncMembers == <<U8, U16>>

ClassBody(c) ==
    CASE c = "Flat" ->
            PyClass(<< <<"A", U8>>,
                       <<"B", PyClass(<< <<"C", Var("A")>>, <<"A", PyInt(7)>> >>)>>,
                       <<"D", Var("A")>>,
                       <<"E", Var("C")>> >>)
      [] c = "Example" ->
            PyClass(<< <<"A", U8>>, <<"B", Class1("C", Var("A"))>> >>)
      [] c = "Deep" ->
            PyClass(<< <<"A", U8>>,
                       <<"B", Class1("C", Class1("D", Var("Z")))>>,
                       <<"E", U8>> >>)
      [] c = "Nested" ->
            PyClass(<< <<"A", U8>>,
                       <<"B", PyClass(<< <<"C", Bool>>, <<"D", Uvarint>> >>)>>,
                       <<"E", Var("C")>> >>)
      [] c = "Top" ->
            PyClass(<< <<"A", U8>>, <<"B", Bool>>, <<"C", Uvarint>> >>)
      [] c = "MatchId" ->
            Class1("M", GetItem("Match", PyTuple(<<PyFunc("ident"), U8,
                         PyList(<<U8, PyInt(20), PyInt(30)>>)>>)))
      [] c = "MatchNeg" ->
            Class1("M", GetItem("Match", PyTuple(<<PyFunc("neg"), U8,
                         PyList(<<U8, PyInt(20), PyInt(30)>>)>>)))
      [] c = "Peek" ->
            PyClass(<< <<"A", U8>>,
                       <<"X", GetItem("Peek", U16)>>,
                       <<"Q", Pos>>,
                       <<"W", GetItem("Peek", PyClass(<< <<"B", U8>>,
                                  <<"C", GetItem("Peek", Uvarint)>>,
                                  <<"D", Var("A")>> >>))>>,
                       <<"L", GetItem("Peek", GetItem("List",
                                  PyTuple(<<PyInt(2), U8>>)))>>,
                       <<"K", GetItem("Peek", GetItem("Seek",
                                  PyTuple(<<PyInt(2), PyInt(1)>>)))>>,
                       <<"Q2", Pos>> >>)
      [] c = "PeekSeek" ->
            PyClass(<< <<"X", GetItem("Peek", GetItem("Seek", PyInt(3)))>>,
                       <<"A", U8>>,
                       <<"Y", GetItem("Peek", GetItem("Seek",
                                  PyTuple(<<PyInt(-1), PyInt(2)>>)))>>,
                       <<"Q", Pos>>,
                       <<"Z", GetItem("Peek", GetItem("Seek",
                                  PyTuple(<<PyInt(-1), PyInt(0)>>)))>> >>)
      [] c = "Seek" ->
            PyClass(<< <<"S", GetItem("Seek", PyTuple(<<PyInt(1), PyInt(1)>>))>>,
                       <<"Q", Pos>>,
                       <<"T", GetItem("Seek", PyTuple(<<PyInt(-1), PyInt(2)>>))>>,
                       <<"B", Bool>>,
                       <<"U", GetItem("Seek", PyTuple(<<PyInt(4), PyInt(7)>>))>>,
                       <<"Q2", Pos>> >>)
      [] c = "FuncListed" ->
            Class1("F", GetItem("Func",
                         PyTuple(<<PyFunc("count")>> \o FuncMembers)))
      [] c = "FuncList" ->
            Class1("F", GetItem("Func",
                         PyTuple(<<PyFunc("count"), PyList(FuncMembers)>>)))
      [] c = "FuncTuple" ->
            Class1("F", GetItem("Func",
                         PyTuple(<<PyFunc("count"), PyTuple(FuncMembers)>>)))
      [] c = "FuncGroup" ->
            Class1("F", GetItem("Func",
                         PyTuple(<<PyFunc("count"),
                                   GetItem("Group", PyTuple(FuncMembers))>>)))
      [] c = "FuncSingle" ->
            Class1("F", GetItem("Func", PyTuple(<<PyFunc("ident"), U8>>)))
      [] c = "FuncAdd" ->
            PyClass(<< <<"A", U8>>,
                       <<"F", GetItem("Func", PyTuple(<<PyFunc("add"),
                                  GetItem("Group", PyTuple(<<Var("A"), U8>>))>>))>> >>)
      [] c = "FloatRaw" ->
            Class1("X", BaseType(FLOAT,
                         PyTuple(<<PyInt(4), PyStr("<"), PyStr("f")>>)))
      [] c = "List0" ->
            PyClass(<< <<"L", GetItem("List", PyTuple(<<PyInt(0), U8>>))>>,
                       <<"Q", Pos>> >>)
      [] c = "ListNeg" ->
            PyClass(<< <<"L", GetItem("List", PyTuple(<<PyInt(-1), U8>>))>>,
                       <<"Q", Pos>> >>)
      [] c = "ListRead" ->
            PyClass(<< <<"L", GetItem("List", PyTuple(<<Uvarint, Bool>>))>>,
                       <<"Q", Pos>> >>)
      [] c = "BadLiteral" -> Class1("F", PyFloat)
      [] c = "BadNested" ->
            PyClass(<< <<"A", U8>>, <<"B", Class1("F", PyFloat)>> >>)

\* A class with the single field X = builder[bits].
IntWidths   == {8, 12, 16}
FloatWidths == {32, 64}
PrimClass(builder, bits) == Class1("X", GetItem(builder, PyInt(bits)))

Decls ==
    [name : ClassNames, builder : {""}, bits : {0}]
    \cup [name : {"Prim"}, builder : IntNames, bits : IntWidths]
    \cup [name : {"Prim"}, builder : FloatNames, bits : FloatWidths]

Declare(d) == IF d.name = "Prim" THEN PrimClass(d.builder, d.bits)
              ELSE ClassBody(d.name)

MaxLen == 4
Tapes == { <<5, 1, 2, 3, 4, 6>>, <<1, 255, 0, 128, 2, 9>>, <<255, 129, 3, 0, 1, 7>> }
Inputs == {SubSeq(t, 1, n) : t \in Tapes, n \in 0..MaxLen}
Orders == {"little", "big"}

\* ---------------------------------------------------------------- state
VARIABLES
    decl,    \* the class statement of the program
    cls,     \* what the class statement evaluated to (PyNone before it)
    Ctx,     \* StructObjCls._Ctx and StructDictCls._Ctx
    pc,      \* "start", "idle", or "parse": inside ParseStruct's call of Parse
    call,    \* the arguments of the last call of ParseStruct
    self,    \* the instance whose Parse the call runs
    struct,  \* the compiled schema the call decodes
    i,       \* the field of struct that Parse's loop is at
    obj,     \* the container Parse is filling
    run,     \* the byte source and the record of the call's routines
    ret      \* how the last call of ParseStruct ended

vars == <<decl, cls, Ctx, pc, call, self, struct, i, obj, run, ret>>

Instances == {"StructObjCls", "StructDictCls"}
EmptyCtx == << >>

Machine(data) ==
    [data |-> data, pos |-> 0, ctx |-> EmptyCtx, val |-> PyNone, err |-> << >>,
     depth |-> 0, binds |-> << >>, lookups |-> << >>, calls |-> << >>,
     peeks |-> << >>, matches |-> << >>, lists |-> << >>, ints |-> << >>]

NoRet == [kind |-> "none", val |-> PyNone, err |-> << >>]

Init ==
    /\ decl \in Decls
    /\ cls = PyNone
    /\ Ctx = [s \in Instances |-> EmptyCtx]
    /\ pc = "start"
    /\ call = [data |-> << >>, ReturnDict |-> FALSE, order |-> "little"]
    /\ self = "StructObjCls"
    /\ struct = << >>
    /\ i = 1
    /\ obj = NewObj("StructObjCls")
    /\ run = Machine(<< >>)
    /\ ret = NoRet

\* The class statement runs: every builder in its body is applied.
DefineClass ==
    /\ pc = "start"
    /\ cls' = Declare(decl)
    /\ pc' = "idle"
    /\ UNCHANGED <<decl, Ctx, call, self, struct, i, obj, run, ret>>

\* ParseStruct(cls, data, ReturnDict, order) up to its call of Parse: the
\* bytes are wrapped in a BytesIO, the class is compiled, and the context
\* of the instance chosen by ReturnDict is replaced by an empty one.  A
\* compile that raises ends the call there.
ParseStruct_Call(data, ReturnDict, order) ==
    /\ pc = "idle"
    /\ cls.py = "type"
    /\ call' = [data |-> data, ReturnDict |-> ReturnDict, order |-> order]
    /\ LET compiled == CompileStruct(cls, order, IF order = "big" THEN ">" ELSE "<")
           inst == IF ReturnDict THEN "StructDictCls" ELSE "StructObjCls"
       IN  IF IsCompileError(compiled)
           THEN /\ ret' = [kind |-> "raise", val |-> PyNone,
                           err |-> <<[exc |-> compiled[2], arg |-> << >>]>>]
                /\ run' = Machine(data)
                /\ UNCHANGED <<Ctx, pc, self, struct, i, obj>>
           ELSE /\ self' = inst
                /\ Ctx' = [Ctx EXCEPT ![inst] = EmptyCtx]
                /\ struct' = compiled[2]
                /\ i' = 1
                /\ obj' = NewObj(inst)
                /\ run' = Machine(data)
                /\ ret' = NoRet
                /\ pc' = "parse"
    /\ UNCHANGED <<decl, cls>>

\* One iteration of the loop of the Parse that ParseStruct called.  An
\* exception leaves Parse and ParseStruct at once.
Parse_Field ==
    /\ pc = "parse"
    /\ i <= Len(struct)
    /\ LET m  == [run EXCEPT !.ctx = Ctx[self]]
           m1 == ParseField(self, m, struct[i][1], struct[i][2])
       IN  /\ Ctx' = [Ctx EXCEPT ![self] = m1.ctx]
           /\ run' = [m1 EXCEPT !.ctx = EmptyCtx]
           /\ IF Ok(m1)
              THEN /\ obj' = SetAttr(obj, struct[i][1], m1.val)
                   /\ i' = i + 1
                   /\ UNCHANGED <<pc, ret>>
              ELSE /\ ret' = [kind |-> "raise", val |-> PyNone, err |-> m1.err]
                   /\ pc' = "idle"
                   /\ UNCHANGED <<obj, i>>
    /\ UNCHANGED <<decl, cls, call, self, struct>>

\* Parse returns obj; ParseStruct replaces the context by an empty one and
\* returns obj.
ParseStruct_Return ==
    /\ pc = "parse"
    /\ i > Len(struct)
    /\ Ctx' = [Ctx EXCEPT ![self] = EmptyCtx]
    /\ ret' = [kind |-> "return", val |-> obj, err |-> << >>]
    /\ pc' = "idle"
    /\ UNCHANGED <<decl, cls, call, self, struct, i, obj, run>>

Next ==
    \/ DefineClass
    \/ \E data \in Inputs, ReturnDict \in BOOLEAN, order \in Orders :
          ParseStruct_Call(data, ReturnDict, order)
    \/ Parse_Field
    \/ ParseStruct_Return

Spec == Init /\ [][Next]_vars

\* --------------------------------------------------------------- claims
Ended == pc = "idle" /\ ret.kind # "none"
Returned == pc = "idle" /\ ret.kind = "return"
\* The call raised inside Parse (not in the compile).
FieldFailed == pc = "idle" /\ ret.kind = "raise" /\ ret.err[1].exc = "RuntimeError"

Range(seq) == {seq[k] : k \in 1..Len(seq)}

\* C1: the context of the instance a call of ParseStruct uses is empty when
\* its Parse starts, keeps every name bound so far while the call runs (it
\* is not cleared in between, sub-records included), and is empty again
\* once the call has ended, by a return or by an exception.
C1_ContextEmptyAroundCall ==
    /\ (pc = "parse" /\ i = 1 => Ctx[self] = EmptyCtx)
    /\ (pc = "parse" => \A b \in Range(run.binds) : b.name \in DOMAIN Ctx[self])
    /\ (Ended => Ctx[self] = EmptyCtx)

\* The last binding of name among the first n bindings of the call (0 when
\* there is none).
LastBind(name, n) ==
    LET ks == {k \in 1..n : run.binds[k].name = name}
    IN  IF ks = {} THEN 0 ELSE CHOOSE k \in ks : \A j \in ks : j <= k

\* C2: the context is one flat namespace over the record tree of a call:
\* every back-reference, at any depth, returns the value most recently
\* bound to its name by any field of the tree decoded before it; a
\* back-reference fails only when no field decoded before it has the name;
\* and the schema [A: 1-byte integer, B: {C: back-reference A}] decodes B.C
\* as the value of A.
C2_FlatNamespace ==
    /\ \A e \in Range(run.lookups) :
          /\ LastBind(e.name, e.at) > 0
          /\ e.val = run.binds[LastBind(e.name, e.at)].val
    /\ (FieldFailed /\ ret.err[Len(ret.err)].exc = "KeyError"
            /\ ret.err[Len(ret.err) - 1].arg[1] = VAR
        => LastBind(ret.err[Len(ret.err) - 1].arg[2], Len(run.binds)) = 0)
    /\ (Returned /\ decl.name = "Example"
        => /\ ret.val.v[2][2].v[1][2] = ret.val.v[1][2]
           /\ (call.data # << >> /\ call.data[1] = 5
               => ret.val.v[2][2].v[1][2] = PyInt(5)))

\* A call returned in which a sub-record resolved a name its ancestor had
\* bound, the enclosing record resolved a name bound inside a finished
\* sub-record, and a name bound twice resolved to its second value.
C2_Witness ==
    /\ Returned
    /\ \E e \in Range(run.lookups) :
          e.depth > run.binds[LastBind(e.name, e.at)].depth
    /\ \E e \in Range(run.lookups) :
          e.depth < run.binds[LastBind(e.name, e.at)].depth
    /\ \E e \in Range(run.lookups) :
          \E k \in 1..(LastBind(e.name, e.at) - 1) :
              /\ run.binds[k].name = e.name
              /\ run.binds[k].val # e.val

\* C3: when a field's routine fails, at any depth, no later field is
\* decoded, no result is returned, and the exception that leaves the call
\* carries the node of the field whose routine failed, the original error
\* being its cause.
C3_FailureCarriesFailingNode ==
    FieldFailed =>
        /\ ret.val = PyNone
        /\ Len(obj.v) = i - 1
        /\ ret.err[1].arg = ret.err[Len(ret.err) - 1].arg
        /\ Len(ret.err) = 2

\* C4: a conditional variant with k results decodes result i when the
\* condition value i is in 0..k-1 and fails, decoding no result, for every
\* other condition value, negative ones included.
C4_MatchIndexInRange ==
    \A e \in Range(run.matches) :
        IF 0 <= e.i /\ e.i < e.k THEN e.at = e.i ELSE e.at = -1

\* C5: a lookahead over a descriptor D that decodes at position P returns
\* the value D decodes at P and leaves the stream at P.
C5_LookaheadRestoresPosition ==
    \A e \in Range(run.peeks) :
        /\ e.pos1 = e.pos0
        /\ LET d == Dispatch(self, [Machine(run.data) EXCEPT !.pos = e.pos0,
                                                             !.ctx = e.ctx0], e.v)
           IN  Ok(d) /\ d.val = e.vv

\* A call returned in which one lookahead, not at the start of the stream,
\* read bytes and another one moved the stream by a seek.
C5_Witness ==
    /\ Returned
    /\ \E e \in Range(run.peeks) : e.pos0 > 0 /\ e.v[1] # SEEK /\ e.end > e.pos0
    /\ \E e \in Range(run.peeks) : e.pos0 > 0 /\ e.v[1] = SEEK /\ e.end # e.pos0

\* The value an Integer routine read, taken from the bytes it got.
IntRead(e) == PyInt(FromBytes(e.got, e.order, e.signed))

\* C6: a derived value over a grouping of k members calls its transform
\* once, with the k decoded member values in order, whichever form gave
\* the grouping: members after the callable, a list, a tuple, or Group.
C6_TransformArity ==
    Returned /\ decl.name \in {"FuncListed", "FuncList", "FuncTuple", "FuncGroup"}
    => /\ Len(run.calls) = 1
       /\ Len(run.ints) = Len(FuncMembers)
       /\ run.calls[1].args = [k \in 1..Len(FuncMembers) |-> IntRead(run.ints[k])]
       /\ ret.val.v[1][2] = Apply("count", run.calls[1].args)

\* C7: an Integer built by IntBE, UIntBE, IntLE or UIntLE with a width that
\* is a multiple of 8 decodes width/8 bytes in the builder's byte order and
\* signedness whatever the default order; one built by Int or UInt uses the
\* default order.
C7_IntegerBuilders ==
    Ended /\ decl.name = "Prim" /\ decl.builder \in IntNames /\ decl.bits % 8 = 0
    => /\ ret.kind = "return"
       /\ Len(run.ints) = 1
       /\ run.ints[1].size = decl.bits \div 8
       /\ ret.val.v[1][2] =
             PyInt(FromBytes(SubSeq(call.data, 1, Min(decl.bits \div 8, Len(call.data))),
                             IF decl.builder \in EndsWithBE THEN "big"
                             ELSE IF decl.builder \in EndsWithLE THEN "little"
                             ELSE call.order,
                             decl.builder \in StartsWithInt))

\* C8: a schema with an Integer or Float whose width is not a multiple of 8
\* is rejected: its class statement or its compile raises, and nothing is
\* decoded for it.
C8_WidthRejected ==
    pc # "start" /\ decl.name = "Prim" /\ decl.bits % 8 # 0
    => /\ pc # "parse"
       /\ ret.kind # "return"
       /\ run.ints = << >>

\* C9: Float, FloatBE and FloatLE applied to 32 or 64 yield a Float
\* descriptor that compiles, and decoding it on enough input returns,
\* having read 4 or 8 bytes.
C9_FloatBuilders ==
    pc # "start" /\ decl.name = "Prim" /\ decl.builder \in FloatNames
    => /\ cls.py = "type"
       /\ cls.v[1][2].Type = FLOAT
       /\ (Ended /\ Len(call.data) >= decl.bits \div 8
           => ret.kind = "return" /\ run.pos = decl.bits \div 8)

\* C10: a List routine returns a sequence only for a count N >= 0 (a
\* negative count fails the call), and for N = 0 it decodes no element.
C10_NegativeCountFails ==
    \A e \in Range(run.lists) : e.N >= 0 /\ (e.N = 0 => e.n = 0)

====
